---- MODULE Spec2Model ----
(***************************************************************************)
(* Model of the two bootstrap scripts of the ecommerce-store repository,   *)
(* deployment.sh (kind path) and miniIstio.sh (minikube path).  A state is *)
(* the host (installed binaries, the istio-* download directory), the      *)
(* local clusters with the objects the scripts apply to them, and the      *)
(* position of the script that is running.  Every command of a script is   *)
(* one action; `set -e` makes a failing command end the run.               *)
(***************************************************************************)
EXTENDS Integers, Sequences, FiniteSets, TLC

\* ------------------------------------------------------------------ bounds
\* Runs of a script in one behaviour.
MaxRuns == 2
\* Longest request path (in characters) resolved against the routing table.
MaxPathLen == 6
\* Documents of one kubectl apply that the cluster API rejects.
MaxApplyFaults == 1
\* Runs of a script in a behaviour in which no external operation fails.
MaxCleanRuns == 3

\* --------------------------------------------------------- script constants
NAMESPACE == "helix"
BACKEND_IMAGE == "krishangunjyal/ecommerce-backend:latest"
FRONTEND_IMAGE == "krishangunjyal/ecommerce-frontend:latest"
KindClusterName == "ecommerce-cluster"
MinikubeProfile == "minikube"

Scripts == {"deployment", "miniIstio"}
Tools == {"kubectl", "kind", "istioctl", "minikube"}
AllClusters == {KindClusterName, MinikubeProfile}

MONGO_URI == "mongodb://mongo." \o NAMESPACE \o ".svc.cluster.local:27017/ecommerceDB"

\* ---------------------------------------------------------------- manifests
DbDocsNoService == <<"sts_mongo">>
DbDocs == <<"svc_mongo", "sts_mongo">>
AppDocs == <<"dep_backend", "svc_backend", "dep_frontend", "svc_frontend">>
RouteDocs == <<"gateway", "virtualservice">>

Range(s) == {s[i] : i \in DOMAIN s}
ObjIds == Range(DbDocs) \cup Range(AppDocs) \cup Range(RouteDocs)
WorkloadIds == Range(DbDocs) \cup Range(AppDocs)
RouteIds == Range(RouteDocs)

\* An object of the cluster that no script declares, and the objects a cluster
\* can hold.
ForeignIds == {"other"}
ForeignDoc == [kind |-> "ConfigMap", name |-> "legacy", namespace |-> NAMESPACE]
ClusterObjIds == ObjIds \cup ForeignIds

Absent == [kind |-> "absent"]
NoResources == [requests |-> "none", limits |-> "none"]

\* The http list with the rule that has no predicate put first.
VirtualServiceHttpCatchAllFirst ==
  << [match |-> FALSE, prefix |-> <<>>,
      host |-> "ecommerce-frontend." \o NAMESPACE \o ".svc.cluster.local", port |-> 80],
     [match |-> TRUE, prefix |-> <<"/", "a", "p", "i">>,
      host |-> "ecommerce-backend." \o NAMESPACE \o ".svc.cluster.local", port |-> 80] >>

\* The http list of VirtualService ecommerce-virtualservice, in document order:
\* a rule with match = FALSE has no predicate.
VirtualServiceHttp ==
  << [match |-> TRUE, prefix |-> <<"/", "a", "p", "i">>,
      host |-> "ecommerce-backend." \o NAMESPACE \o ".svc.cluster.local", port |-> 80],
     [match |-> FALSE, prefix |-> <<>>,
      host |-> "ecommerce-frontend." \o NAMESPACE \o ".svc.cluster.local", port |-> 80] >>

\* Container resources: miniIstio.sh sets requests and limits, deployment.sh none.
Resources(s, name) ==
  IF s = "deployment" THEN NoResources
  ELSE IF name = "mongo" THEN [requests |-> "50m/128Mi", limits |-> "100m/256Mi"]
  ELSE [requests |-> "10m/64Mi", limits |-> "50m/128Mi"]

\* Documents that carry the name of the script that applies them.
ManifestPerScript(s, o) ==
  [kind |-> o, name |-> s \o "-" \o o, namespace |-> NAMESPACE,
   resources |-> Resources(s, o)]

\* The document script s applies for object o.
Manifest(s, o) ==
  CASE o = "svc_mongo" ->
         [kind |-> "Service", name |-> "mongo", namespace |-> NAMESPACE,
          port |-> 27017, targetPort |-> 27017, selector |-> "mongo"]
    [] o = "sts_mongo" ->
         [kind |-> "StatefulSet", name |-> "mongo", namespace |-> NAMESPACE,
          serviceName |-> "mongo", replicas |-> 1, image |-> "mongo:6.0",
          containerPort |-> 27017, storage |-> "1Gi",
          resources |-> Resources(s, "mongo")]
    [] o = "dep_backend" ->
         [kind |-> "Deployment", name |-> "ecommerce-backend", namespace |-> NAMESPACE,
          replicas |-> 1, image |-> BACKEND_IMAGE, containerPort |-> 5000,
          env |-> <<[name |-> "MONGO_URI", value |-> MONGO_URI]>>,
          resources |-> Resources(s, "ecommerce-backend")]
    [] o = "svc_backend" ->
         [kind |-> "Service", name |-> "ecommerce-backend", namespace |-> NAMESPACE,
          port |-> 80, targetPort |-> 5000, selector |-> "ecommerce-backend"]
    [] o = "dep_frontend" ->
         [kind |-> "Deployment", name |-> "ecommerce-frontend", namespace |-> NAMESPACE,
          replicas |-> 1, image |-> FRONTEND_IMAGE, containerPort |-> 80,
          env |-> <<>>,
          resources |-> Resources(s, "ecommerce-frontend")]
    [] o = "svc_frontend" ->
         [kind |-> "Service", name |-> "ecommerce-frontend", namespace |-> NAMESPACE,
          port |-> 80, targetPort |-> 80, selector |-> "ecommerce-frontend"]
    [] o = "gateway" ->
         [kind |-> "Gateway", name |-> "ecommerce-gateway", namespace |-> NAMESPACE,
          selector |-> "ingressgateway", port |-> 80, protocol |-> "HTTP",
          hosts |-> "*"]
    [] o = "virtualservice" ->
         [kind |-> "VirtualService", name |-> "ecommerce-virtualservice",
          namespace |-> NAMESPACE, hosts |-> "*", gateways |-> "ecommerce-gateway",
          http |-> VirtualServiceHttp]

\* ------------------------------------------------------------------ routing
PathChars == {"/", "a", "p", "i", "x"}
Paths == UNION {[1..n -> PathChars] : n \in 0..MaxPathLen}

\* uri.prefix match: the path begins with the prefix, character by character.
PrefixMatches(prefix, path) ==
  /\ Len(path) >= Len(prefix)
  /\ \A i \in 1..Len(prefix) : path[i] = prefix[i]

RuleMatches(rule, path) == rule.match => PrefixMatches(rule.prefix, path)

\* First-match-wins evaluation of an http list, top to bottom.
RECURSIVE ResolveFrom(_, _, _)
ResolveFrom(http, path, i) ==
  IF i > Len(http) THEN [host |-> "none", port |-> 0]
  ELSE IF RuleMatches(http[i], path) THEN [host |-> http[i].host, port |-> http[i].port]
  ELSE ResolveFrom(http, path, i + 1)

Resolve(http, path) == ResolveFrom(http, path, 1)

\* ---------------------------------------------------------------- variables
VARIABLES
  bin,         \* host: tool -> "absent" | "ok" | "broken" (a file on the default PATH)
  istioDir,    \* host: an istio-* directory from an earlier download is in the cwd
  clusters,    \* the clusters that exist
  made,        \* cluster name -> how many clusters of that name were created
  health,      \* cluster -> "healthy" | "degraded"
  context,     \* the cluster the kubeconfig points to, or "none"
  mesh,        \* cluster -> the mesh installed in it
  ns,          \* cluster -> namespace helix: "absent" | "plain" | "enabled"
  objs,        \* cluster -> object -> the applied document, or Absent
  runs,        \* runs started so far
  script,      \* the script of the current run
  pc,          \* the command the run is at; "idle" before the first run, "done" after a run
  exit,        \* exit code of the last finished run
  pathIstio,   \* this run's PATH holds the downloaded istio-*/bin
  h,           \* what the current run did (observations for the properties)
  prev,        \* the run before the current one, and the cluster objects it left
  req,         \* the last request resolved against the applied routing table
  backend      \* the backend process that evaluates backend/db.js

envVars == <<bin, istioDir, clusters, made, health, context, mesh, ns, objs>>
runVars == <<runs, script, pc, exit, pathIstio, h>>
vars == <<bin, istioDir, clusters, made, health, context, mesh, ns, objs,
          runs, script, pc, exit, pathIstio, h, prev, req, backend>>

NoMesh == [profile |-> "none", istiod |-> "absent", ingress |-> "absent",
           svcType |-> "none"]
NoReport == [ip |-> "unset", port |-> "unset"]
NoReq == [path |-> <<>>, host |-> "none", port |-> 0]
NoBackend == [phase |-> "none", where |-> "none", env |-> <<>>,
              attempts |-> 0, code |-> 0]

\* The observations of a run, as they are when it starts.
NewRun(fresh) ==
  [ fresh |-> fresh,          \* started with no tool installed and no cluster
    faulted |-> FALSE,        \* an external operation failed or misbehaved
    aborted |-> FALSE,        \* the run was killed
    failed |-> "none",        \* stage of the first command that exited non-zero
    afterFail |-> FALSE,      \* a later stage acted after that failure
    acts |-> {},              \* stages that changed the host or the cluster
    probeReach |-> FALSE,     \* the liveness probe found a reachable cluster
    created |-> {},           \* clusters this run created
    createTried |-> FALSE,    \* this run invoked the creation of a cluster
    degradedAtProbe |-> FALSE,\* the probe ran on a cluster that exists but is degraded
    objCreated |-> {},        \* objects this run created
    applied |-> <<>>,         \* documents this run applied, in the order of application
    nsCreated |-> FALSE,
    nsLabelled |-> FALSE,
    transient |-> FALSE,      \* the run's only fault is a transient failure of an apply
    nsBefore |-> "none",      \* the namespace as the label command found it
    meshTimeout |-> FALSE,    \* the mesh did not become ready in time
    downloads |-> {},         \* tools this run downloaded
    garbage |-> {},           \* tools whose download was not the tool
    brokenUse |-> {},         \* tools invoked while missing or broken
    report |-> NoReport ]

NoPrev == [script |-> "none", ok |-> FALSE, immediate |-> FALSE, installed |-> {},
           clusters |-> {}, ns |-> [c \in AllClusters |-> "absent"],
           objs |-> [c \in AllClusters |-> [o \in ClusterObjIds |-> Absent]]]

\* A host before any run: kubectl and istioctl may be preinstalled; there is no
\* cluster and the kubeconfig points to none.
Init ==
  /\ \E k \in {"absent", "ok"}, i \in {"absent", "ok"} :
       bin = [t \in Tools |-> IF t = "kubectl" THEN k
                              ELSE IF t = "istioctl" THEN i ELSE "absent"]
  /\ istioDir = FALSE
  /\ clusters = {}
  /\ made = [c \in AllClusters |-> 0]
  /\ context = "none"
  /\ health = [c \in AllClusters |-> "healthy"]
  /\ mesh = [c \in AllClusters |-> NoMesh]
  /\ ns = [c \in AllClusters |-> "absent"]
  /\ objs = [c \in AllClusters |-> [o \in ClusterObjIds |-> Absent]]
  /\ runs = 0
  /\ script = "none"
  /\ pc = "idle"
  /\ exit = -1
  /\ pathIstio = FALSE
  /\ h = NewRun(FALSE)
  /\ prev = NoPrev
  /\ req = NoReq
  /\ backend = NoBackend

\* ------------------------------------------------------------------ helpers
\* command_exists: `command -v` finds any executable file of that name.
command_exists(t) == bin[t] # "absent" \/ (t = "istioctl" /\ pathIstio)

\* The binary a tool name resolves to runs and is the tool.
ToolWorks(t) == bin[t] = "ok" \/ (t = "istioctl" /\ pathIstio)

\* The kubeconfig's cluster exists and answers.
ClusterUp == context \in clusters /\ health[context] = "healthy"

\* A kubectl command can reach the cluster.
Kube == ToolWorks("kubectl") /\ ClusterUp

\* curl without --fail: "ok" saves the tool, "fail" is a non-zero exit of curl,
\* "garbage" is exit 0 with a body that is not the tool (an HTTP error page).
DownloadOutcomes == {"ok", "fail", "garbage"}

Installed(o, before) ==
  IF o = "ok" THEN "ok" ELSE IF o = "garbage" THEN "broken" ELSE before

\* set -e: a command that exits non-zero ends the run.
SetEOff(ok, next) == next
SetE(ok, next) == IF ok THEN next ELSE "done"

ExitOf(ok) == IF ok THEN exit ELSE 1

Acted(hh, stage) ==
  [hh EXCEPT !.acts = @ \cup {stage},
             !.afterFail = @ \/ (hh.failed # "none" /\ hh.failed # stage)]

FailedAt(hh, stage) == [hh EXCEPT !.failed = IF @ = "none" THEN stage ELSE @]

Use(hh, t) == IF ToolWorks(t) THEN hh ELSE [hh EXCEPT !.brokenUse = @ \cup {t}]

\* Bookkeeping of one command of `stage` that runs tool t with outcome o.
Cmd(hh, stage, t, o, ok) ==
  LET h1 == Acted(Use(hh, t), stage)
      h2 == [h1 EXCEPT !.faulted = @ \/ (o # "ok"),
                       !.transient = @ /\ (o = "ok")]
  IN IF ok THEN h2 ELSE FailedAt(h2, stage)

\* Bookkeeping of the download of tool t with outcome o.
Download(hh, t, o) ==
  LET h1 == Acted(hh, "tool")
      h2 == [h1 EXCEPT !.faulted = @ \/ (o # "ok"),
                       !.transient = @ /\ (o = "ok"),
                       !.downloads = @ \cup {t},
                       !.garbage = IF o = "garbage" THEN @ \cup {t} ELSE @]
  IN IF o = "fail" THEN FailedAt(h2, "tool") ELSE h2

\* kubectl apply of several documents: each document is applied on its own,
\* a failing one does not stop the others, and the command exits non-zero
\* when any failed.  `bad` are the documents whose apply fails.
Appliable(o) ==
  /\ Kube
  /\ ns[context] # "absent"
  /\ (o \in RouteIds => mesh[context].profile # "none")

AppliedPrune(s, docs, bad) ==
  [objs EXCEPT ![context] =
     [o \in ClusterObjIds |-> IF o \in docs \ bad THEN Manifest(s, o) ELSE Absent]]

Applied(s, docs, bad) ==
  [objs EXCEPT ![context] =
     [o \in ClusterObjIds |-> IF o \in docs \ bad THEN Manifest(s, o) ELSE @[o]]]

\* The sets of documents of `docs` whose apply the cluster API can fail.
Rejected(docs) ==
  {p \in SUBSET {o \in docs : Appliable(o)} : Cardinality(p) <= MaxApplyFaults}

\* The documents of one apply that were applied, in document order.
AppliedInOrder(docs, bad) == SelectSeq(docs, LAMBDA o : o \notin bad)

NewObjects(docs, bad) ==
  IF context \in AllClusters
  THEN {o \in docs \ bad : objs[context][o] = Absent}
  ELSE {}

\* Why the cluster API fails the documents `picked`: a transient failure (a
\* network blip) would succeed when repeated, a permanent one (a malformed
\* manifest, an authorization denial) would not.  kubectl apply exits non-zero
\* for both and the scripts run it once.
FaultKinds(picked) == IF picked = {} THEN {"none"} ELSE {"transient", "permanent"}

\* Bookkeeping of the fault kind k of an apply, hh being the run before it.
Fault(h1, hh, k) == [h1 EXCEPT !.transient = ~hh.faulted /\ k = "transient"]

\* The outcomes the environment can give a kubectl command.
KubeOutcomes == IF Kube THEN {"ok", "fail"} ELSE {"ok"}

\* ------------------------------------------------------------ deployment.sh
\* lines 25-41: the branch taken on the result of `kubectl version --short`.
AfterProbeAlwaysCreate(reach) == "d_kind"
AfterProbeNeverCreate(reach) == "d_ns"
AfterProbe(reach) == IF reach THEN "d_ns" ELSE "d_kind"

\* lines 15-22
d_kubectl ==
  /\ script = "deployment" /\ pc = "d_kubectl"
  /\ IF command_exists("kubectl")
     THEN /\ pc' = "d_probe"
          /\ UNCHANGED <<bin, h, exit>>
     ELSE \E o \in DownloadOutcomes :
            /\ bin' = [bin EXCEPT !["kubectl"] = Installed(o, @)]
            /\ h' = Download(h, "kubectl", o)
            /\ pc' = SetE(o # "fail", "d_probe")
            /\ exit' = ExitOf(o # "fail")
  /\ UNCHANGED <<istioDir, clusters, made, health, context, mesh, ns, objs,
                 runs, script, pathIstio, prev, req, backend>>

\* line 25: the probe is the condition of an `if`, so its failure never ends the run
d_probe ==
  /\ script = "deployment" /\ pc = "d_probe"
  /\ \E o \in KubeOutcomes :
       LET reach == Kube /\ o = "ok" IN
       /\ h' = [Use(h, "kubectl") EXCEPT
                  !.probeReach = reach,
                  !.degradedAtProbe =
                      /\ ToolWorks("kubectl")
                      /\ \E c \in clusters \cap {context, KindClusterName} :
                           health[c] = "degraded",
                  !.faulted = @ \/ (o # "ok")]
       /\ pc' = AfterProbe(reach)
  /\ UNCHANGED <<envVars, runs, script, exit, pathIstio, prev, req, backend>>

\* lines 28-35
d_kind ==
  /\ script = "deployment" /\ pc = "d_kind"
  /\ IF command_exists("kind")
     THEN /\ pc' = "d_create"
          /\ UNCHANGED <<bin, h, exit>>
     ELSE \E o \in DownloadOutcomes :
            /\ bin' = [bin EXCEPT !["kind"] = Installed(o, @)]
            /\ h' = Download(h, "kind", o)
            /\ pc' = SetE(o # "fail", "d_create")
            /\ exit' = ExitOf(o # "fail")
  /\ UNCHANGED <<istioDir, clusters, made, health, context, mesh, ns, objs,
                 runs, script, pathIstio, prev, req, backend>>

\* line 38: kind refuses a name whose nodes exist; a failed creation removes
\* its nodes, a killed one leaves them behind.
d_create ==
  /\ script = "deployment" /\ pc = "d_create"
  /\ IF ~ToolWorks("kind") \/ KindClusterName \in clusters
     THEN /\ h' = [Cmd(h, "cluster", "kind", "ok", FALSE) EXCEPT !.createTried = TRUE]
          /\ pc' = SetE(FALSE, "d_ns")
          /\ exit' = ExitOf(FALSE)
          /\ UNCHANGED <<clusters, made, health, context>>
     ELSE \E o \in {"ok", "fail", "killed"} :
            /\ clusters' = IF o = "fail" THEN clusters
                           ELSE clusters \cup {KindClusterName}
            /\ made' = IF o = "fail" THEN made
                       ELSE [made EXCEPT ![KindClusterName] = @ + 1]
            /\ health' = [health EXCEPT ![KindClusterName] =
                            IF o = "killed" THEN "degraded" ELSE "healthy"]
            /\ context' = IF o = "ok" THEN KindClusterName ELSE context
            /\ h' = [Cmd(h, "cluster", "kind", o, o = "ok") EXCEPT
                       !.createTried = TRUE,
                       !.created = IF o = "fail" THEN @ ELSE @ \cup {KindClusterName},
                       !.aborted = @ \/ (o = "killed")]
            /\ pc' = IF o = "killed" THEN "done" ELSE SetE(o = "ok", "d_ns")
            /\ exit' = IF o = "killed" THEN 137 ELSE ExitOf(o = "ok")
  /\ UNCHANGED <<bin, istioDir, mesh, ns, objs,
                 runs, script, pathIstio, prev, req, backend>>

\* line 44 (deployment.sh), line 40 (miniIstio.sh): `! kubectl get namespace`
NamespaceMissingAlways == TRUE
NamespaceMissing == ~(Kube /\ ns[context] # "absent")

\* lines 43-47: creating a namespace that exists is an error
d_ns ==
  /\ script = "deployment" /\ pc = "d_ns"
  /\ IF ~NamespaceMissing
     THEN /\ pc' = "d_istioctl"
          /\ UNCHANGED <<ns, h, exit>>
     ELSE \E o \in KubeOutcomes :
            LET ok == Kube /\ ns[context] = "absent" /\ o = "ok" IN
            /\ ns' = IF ok THEN [ns EXCEPT ![context] = "plain"] ELSE ns
            /\ h' = [Cmd(h, "namespace", "kubectl", o, ok) EXCEPT
                       !.nsCreated = @ \/ ok]
            /\ pc' = SetE(ok, "d_istioctl")
            /\ exit' = ExitOf(ok)
  /\ UNCHANGED <<bin, istioDir, clusters, made, health, context, mesh, objs,
                 runs, script, pathIstio, prev, req, backend>>

\* lines 51-60: `curl | sh` has the exit status of sh, so a failing curl ("fail")
\* is not seen; "garbage" makes sh fail.  `cd istio-*` then needs a directory.
d_istioctl ==
  /\ script = "deployment" /\ pc = "d_istioctl"
  /\ IF command_exists("istioctl")
     THEN /\ pc' = "d_mesh"
          /\ UNCHANGED <<istioDir, pathIstio, h, exit>>
     ELSE \E o \in DownloadOutcomes :
            LET dir == istioDir \/ o = "ok"
                ok == o # "garbage" /\ dir
                h1 == Download(h, "istioctl", IF o = "fail" THEN "ok" ELSE o)
                h2 == [h1 EXCEPT !.faulted = @ \/ (o # "ok")]
                h3 == IF o = "fail" THEN FailedAt(h2, "tool") ELSE h2
            IN
            /\ istioDir' = dir
            /\ pathIstio' = ok
            /\ h' = IF ok THEN h3 ELSE FailedAt(h3, "tool")
            /\ pc' = SetE(ok, "d_mesh")
            /\ exit' = ExitOf(ok)
  /\ UNCHANGED <<bin, clusters, made, health, context, mesh, ns, objs,
                 runs, script, prev, req, backend>>

\* `istioctl install` (deployment.sh line 64) and `kubectl wait --timeout=3m`
\* (miniIstio.sh lines 36-37) exit 0 only when what they wait for is ready.
WaitOkAlways(o) == TRUE
WaitOk(o) == o = "ok"

\* line 64: istioctl install waits for istiod and the ingress gateway and
\* exits non-zero when they are not ready in time.
d_mesh ==
  /\ script = "deployment" /\ pc = "d_mesh"
  /\ \E o \in IF ClusterUp THEN {"ok", "fail", "timeout_istiod", "timeout_ingress"}
              ELSE {"ok"} :
       LET ok == ToolWorks("istioctl") /\ ClusterUp /\ WaitOk(o) IN
       /\ mesh' = IF ~ToolWorks("istioctl") \/ ~ClusterUp \/ o = "fail" THEN mesh
                  ELSE [mesh EXCEPT ![context] =
                          [profile |-> "demo",
                           istiod |-> IF o = "timeout_istiod" THEN "pending" ELSE "ready",
                           ingress |-> IF o = "ok" THEN "ready" ELSE "pending",
                           svcType |-> IF @.svcType = "none" THEN "LoadBalancer"
                                       ELSE @.svcType]]
       /\ h' = [Cmd(h, "mesh", "istioctl", o, ok) EXCEPT
                  !.meshTimeout = @ \/ (o \in {"timeout_istiod", "timeout_ingress"})]
       /\ pc' = SetE(ok, "d_patch")
       /\ exit' = ExitOf(ok)
  /\ UNCHANGED <<bin, istioDir, clusters, made, health, context, ns, objs,
                 runs, script, pathIstio, prev, req, backend>>

\* line 68
d_patch ==
  /\ script = "deployment" /\ pc = "d_patch"
  /\ \E o \in KubeOutcomes :
       LET ok == Kube /\ mesh[context].profile # "none" /\ o = "ok" IN
       /\ mesh' = IF ok THEN [mesh EXCEPT ![context].svcType = "NodePort"] ELSE mesh
       /\ h' = Cmd(h, "mesh", "kubectl", o, ok)
       /\ pc' = SetE(ok, "d_label")
       /\ exit' = ExitOf(ok)
  /\ UNCHANGED <<bin, istioDir, clusters, made, health, context, ns, objs,
                 runs, script, pathIstio, prev, req, backend>>

\* line 71 (deployment.sh) sets istio-injection=enabled; line 47 (miniIstio.sh)
\* removes the label.  The namespace after the label command of script s:
InjectionLabelKept(s, before) == before
InjectionLabel(s, before) == IF s = "deployment" THEN "enabled" ELSE "plain"

\* line 71
d_label ==
  /\ script = "deployment" /\ pc = "d_label"
  /\ \E o \in KubeOutcomes :
       LET ok == Kube /\ ns[context] # "absent" /\ o = "ok" IN
       /\ ns' = IF ok THEN [ns EXCEPT ![context] = InjectionLabel("deployment", @)]
                  ELSE ns
       /\ h' = [Cmd(h, "namespace", "kubectl", o, ok) EXCEPT
                  !.nsLabelled = @ \/ ok,
                  !.nsBefore = IF ok THEN ns[context] ELSE @]
       /\ pc' = SetE(ok, "d_applyDb")
       /\ exit' = ExitOf(ok)
  /\ UNCHANGED <<bin, istioDir, clusters, made, health, context, mesh, objs,
                 runs, script, pathIstio, prev, req, backend>>

\* lines 73-119 (deployment.sh), 51-103 (miniIstio.sh): Service and StatefulSet mongo
ApplyDb(s, next) ==
  \E picked \in Rejected(Range(DbDocs)) : \E k \in FaultKinds(picked) :
    LET bad == picked \cup {o \in Range(DbDocs) : ~Appliable(o)}
        ok == bad = {}
        h1 == Cmd(h, "workload", "kubectl", IF picked = {} THEN "ok" ELSE "fail", ok)
    IN
    /\ objs' = IF Kube THEN Applied(s, Range(DbDocs), bad) ELSE objs
    /\ h' = [Fault(h1, h, k) EXCEPT
               !.objCreated = @ \cup NewObjects(Range(DbDocs), bad),
               !.applied = @ \o AppliedInOrder(DbDocs, bad)]
    /\ pc' = SetE(ok, next)
    /\ exit' = ExitOf(ok)

d_applyDb ==
  /\ script = "deployment" /\ pc = "d_applyDb"
  /\ ApplyDb("deployment", "d_applyApp")
  /\ UNCHANGED <<bin, istioDir, clusters, made, health, context, mesh, ns,
                 runs, script, pathIstio, prev, req, backend>>

\* lines 121-234: one kubectl apply of the two Deployments, the two Services,
\* the Gateway and the VirtualService, in this order.
d_applyApp ==
  /\ script = "deployment" /\ pc = "d_applyApp"
  /\ \E picked \in Rejected(Range(AppDocs) \cup RouteIds) : \E k \in FaultKinds(picked) :
       LET docs == Range(AppDocs) \cup RouteIds
           bad == picked \cup {o \in docs : ~Appliable(o)}
           ok == bad = {}
           h1 == Cmd(h, "workload", "kubectl", IF picked = {} THEN "ok" ELSE "fail",
                     bad \cap Range(AppDocs) = {})
           h2 == IF Kube THEN Acted(h1, "route") ELSE h1
           h3 == IF bad \cap RouteIds # {} THEN FailedAt(h2, "route") ELSE h2
       IN
       /\ objs' = IF Kube THEN Applied("deployment", docs, bad) ELSE objs
       /\ h' = [Fault(h3, h, k) EXCEPT
                  !.objCreated = @ \cup NewObjects(docs, bad),
                  !.applied = @ \o AppliedInOrder(AppDocs \o RouteDocs, bad)]
       /\ pc' = SetE(ok, "d_nodeip")
       /\ exit' = ExitOf(ok)
  /\ UNCHANGED <<bin, istioDir, clusters, made, health, context, mesh, ns,
                 runs, script, pathIstio, prev, req, backend>>

\* line 237: an assignment from a command substitution has the command's status;
\* a jsonpath that selects nothing prints the empty string and exits 0.
d_nodeip ==
  /\ script = "deployment" /\ pc = "d_nodeip"
  /\ \E o \in IF Kube THEN {"ok", "fail", "empty"} ELSE {"ok"} :
       LET ok == Kube /\ o # "fail" IN
       /\ h' = [Cmd(h, "access", "kubectl", o, ok) EXCEPT
                  !.report.ip = IF ~ok THEN @ ELSE IF o = "ok" THEN "node-ip" ELSE ""]
       /\ pc' = SetE(ok, "d_nodeport")
       /\ exit' = ExitOf(ok)
  /\ UNCHANGED <<envVars, runs, script, pathIstio, prev, req, backend>>

\* The nodePort of port 80 of Service istio-ingressgateway, as the jsonpath prints it.
NodePortOf(m, o) ==
  IF o = "ok" /\ m.svcType \in {"NodePort", "LoadBalancer"} THEN "node-port" ELSE ""

\* lines 238-244 (deployment.sh) and 240 (miniIstio.sh)
NodePort(next, last) ==
  \E o \in IF Kube /\ mesh[context].profile # "none" THEN {"ok", "fail", "empty"}
           ELSE {"ok"} :
    LET ok == Kube /\ mesh[context].profile # "none" /\ o # "fail" IN
    /\ h' = [Cmd(h, "access", "kubectl", o, ok) EXCEPT
               !.report.port = IF ok THEN NodePortOf(mesh[context], o) ELSE @]
    /\ pc' = SetE(ok, next)
    /\ exit' = IF ok /\ last THEN 0 ELSE ExitOf(ok)

d_nodeport ==
  /\ script = "deployment" /\ pc = "d_nodeport"
  /\ NodePort("done", TRUE)
  /\ UNCHANGED <<envVars, runs, script, pathIstio, prev, req, backend>>

\* ------------------------------------------------------------- miniIstio.sh
\* lines 13-20
m_minikube ==
  /\ script = "miniIstio" /\ pc = "m_minikube"
  /\ IF command_exists("minikube")
     THEN /\ pc' = "m_status"
          /\ UNCHANGED <<bin, h, exit>>
     ELSE \E o \in DownloadOutcomes :
            /\ bin' = [bin EXCEPT !["minikube"] = Installed(o, @)]
            /\ h' = Download(h, "minikube", o)
            /\ pc' = SetE(o # "fail", "m_status")
            /\ exit' = ExitOf(o # "fail")
  /\ UNCHANGED <<istioDir, clusters, made, health, context, mesh, ns, objs,
                 runs, script, pathIstio, prev, req, backend>>

\* minikube commands reach the cluster of the default profile.
MinikubeUp ==
  /\ ToolWorks("minikube")
  /\ MinikubeProfile \in clusters
  /\ health[MinikubeProfile] = "healthy"

\* line 23: the condition of an `if`
m_status ==
  /\ script = "miniIstio" /\ pc = "m_status"
  /\ h' = [Use(h, "minikube") EXCEPT
             !.probeReach = MinikubeUp,
             !.degradedAtProbe = /\ ToolWorks("minikube")
                                 /\ MinikubeProfile \in clusters
                                 /\ health[MinikubeProfile] = "degraded"]
  /\ pc' = IF MinikubeUp THEN "m_addon" ELSE "m_start"
  /\ UNCHANGED <<envVars, runs, script, exit, pathIstio, prev, req, backend>>

\* line 25: minikube start creates the default profile or restarts the one that
\* exists, and points the kubeconfig to it.
m_start ==
  /\ script = "miniIstio" /\ pc = "m_start"
  /\ IF ~ToolWorks("minikube")
     THEN /\ h' = [Cmd(h, "cluster", "minikube", "ok", FALSE) EXCEPT
                     !.createTried = @ \/ MinikubeProfile \notin clusters]
          /\ pc' = SetE(FALSE, "m_addon")
          /\ exit' = ExitOf(FALSE)
          /\ UNCHANGED <<clusters, made, health, context>>
     ELSE \E o \in {"ok", "fail", "killed"} :
            LET new == MinikubeProfile \notin clusters IN
            /\ clusters' = IF o = "fail" THEN clusters
                           ELSE clusters \cup {MinikubeProfile}
            /\ made' = IF o # "fail" /\ new
                       THEN [made EXCEPT ![MinikubeProfile] = @ + 1] ELSE made
            /\ health' = IF o = "fail" THEN health
                         ELSE [health EXCEPT ![MinikubeProfile] =
                                 IF o = "killed" THEN "degraded" ELSE "healthy"]
            /\ context' = IF o = "ok" THEN MinikubeProfile ELSE context
            /\ h' = [Cmd(h, "cluster", "minikube", o, o = "ok") EXCEPT
                       !.createTried = @ \/ new,
                       !.created = IF o # "fail" /\ new THEN @ \cup {MinikubeProfile}
                                   ELSE @,
                       !.aborted = @ \/ (o = "killed")]
            /\ pc' = IF o = "killed" THEN "done" ELSE SetE(o = "ok", "m_addon")
            /\ exit' = IF o = "killed" THEN 137 ELSE ExitOf(o = "ok")
  /\ UNCHANGED <<bin, istioDir, mesh, ns, objs,
                 runs, script, pathIstio, prev, req, backend>>

\* line 32: the addon is applied and the command returns; its pods start later
m_addon ==
  /\ script = "miniIstio" /\ pc = "m_addon"
  /\ \E o \in IF MinikubeUp THEN {"ok", "fail"} ELSE {"ok"} :
       LET ok == MinikubeUp /\ o = "ok" IN
       /\ mesh' = IF ok /\ mesh[MinikubeProfile].profile = "none"
                  THEN [mesh EXCEPT ![MinikubeProfile] =
                          [profile |-> "addon", istiod |-> "pending",
                           ingress |-> "pending", svcType |-> "LoadBalancer"]]
                  ELSE mesh
       /\ h' = Cmd(h, "mesh", "minikube", o, ok)
       /\ pc' = SetE(ok, "m_waitIstiod")
       /\ exit' = ExitOf(ok)
  /\ UNCHANGED <<bin, istioDir, clusters, made, health, context, ns, objs,
                 runs, script, pathIstio, prev, req, backend>>

\* lines 36-37: kubectl wait --for=condition=Ready ... --timeout=3m
Wait(part, next) ==
  \E o \in IF Kube /\ mesh[context].profile # "none" THEN {"ok", "timeout"}
           ELSE {"ok"} :
    LET there == Kube /\ mesh[context].profile # "none"
        ok == there /\ WaitOk(o)
    IN
    /\ mesh' = IF ~there THEN mesh
               ELSE [mesh EXCEPT ![context][part] = IF ok THEN "ready" ELSE "pending"]
    /\ h' = [Cmd(h, "mesh", "kubectl", o, ok) EXCEPT
               !.meshTimeout = @ \/ (there /\ o = "timeout")]
    /\ pc' = SetE(ok, next)
    /\ exit' = ExitOf(ok)

m_waitIstiod ==
  /\ script = "miniIstio" /\ pc = "m_waitIstiod"
  /\ Wait("istiod", "m_waitIngress")
  /\ UNCHANGED <<bin, istioDir, clusters, made, health, context, ns, objs,
                 runs, script, pathIstio, prev, req, backend>>

m_waitIngress ==
  /\ script = "miniIstio" /\ pc = "m_waitIngress"
  /\ Wait("ingress", "m_ns")
  /\ UNCHANGED <<bin, istioDir, clusters, made, health, context, ns, objs,
                 runs, script, pathIstio, prev, req, backend>>

\* lines 39-43
m_ns ==
  /\ script = "miniIstio" /\ pc = "m_ns"
  /\ IF ~NamespaceMissing
     THEN /\ pc' = "m_label"
          /\ UNCHANGED <<ns, h, exit>>
     ELSE \E o \in KubeOutcomes :
            LET ok == Kube /\ ns[context] = "absent" /\ o = "ok" IN
            /\ ns' = IF ok THEN [ns EXCEPT ![context] = "plain"] ELSE ns
            /\ h' = [Cmd(h, "namespace", "kubectl", o, ok) EXCEPT
                       !.nsCreated = @ \/ ok]
            /\ pc' = SetE(ok, "m_label")
            /\ exit' = ExitOf(ok)
  /\ UNCHANGED <<bin, istioDir, clusters, made, health, context, mesh, objs,
                 runs, script, pathIstio, prev, req, backend>>

\* line 47: `istio-injection-` removes the label; removing a label that is not
\* there is not an error.
m_label ==
  /\ script = "miniIstio" /\ pc = "m_label"
  /\ \E o \in KubeOutcomes :
       LET ok == Kube /\ ns[context] # "absent" /\ o = "ok" IN
       /\ ns' = IF ok THEN [ns EXCEPT ![context] = InjectionLabel("miniIstio", @)]
                  ELSE ns
       /\ h' = [Cmd(h, "namespace", "kubectl", o, ok) EXCEPT
                  !.nsLabelled = @ \/ ok,
                  !.nsBefore = IF ok THEN ns[context] ELSE @]
       /\ pc' = SetE(ok, "m_applyDb")
       /\ exit' = ExitOf(ok)
  /\ UNCHANGED <<bin, istioDir, clusters, made, health, context, mesh, objs,
                 runs, script, pathIstio, prev, req, backend>>

m_applyDb ==
  /\ script = "miniIstio" /\ pc = "m_applyDb"
  /\ ApplyDb("miniIstio", "m_applyApp")
  /\ UNCHANGED <<bin, istioDir, clusters, made, health, context, mesh, ns,
                 runs, script, pathIstio, prev, req, backend>>

\* lines 107-192: the two Deployments and the two Services
m_applyApp ==
  /\ script = "miniIstio" /\ pc = "m_applyApp"
  /\ \E picked \in Rejected(Range(AppDocs)) : \E k \in FaultKinds(picked) :
       LET bad == picked \cup {o \in Range(AppDocs) : ~Appliable(o)}
           ok == bad = {}
           h1 == Cmd(h, "workload", "kubectl", IF picked = {} THEN "ok" ELSE "fail", ok)
       IN
       /\ objs' = IF Kube THEN Applied("miniIstio", Range(AppDocs), bad) ELSE objs
       /\ h' = [Fault(h1, h, k) EXCEPT
                  !.objCreated = @ \cup NewObjects(Range(AppDocs), bad),
                  !.applied = @ \o AppliedInOrder(AppDocs, bad)]
       /\ pc' = SetE(ok, "m_applyRoute")
       /\ exit' = ExitOf(ok)
  /\ UNCHANGED <<bin, istioDir, clusters, made, health, context, mesh, ns,
                 runs, script, pathIstio, prev, req, backend>>

\* lines 196-237: the Gateway and the VirtualService
m_applyRoute ==
  /\ script = "miniIstio" /\ pc = "m_applyRoute"
  /\ \E picked \in Rejected(RouteIds) : \E k \in FaultKinds(picked) :
       LET bad == picked \cup {o \in RouteIds : ~Appliable(o)}
           ok == bad = {}
           h1 == Cmd(h, "route", "kubectl", IF picked = {} THEN "ok" ELSE "fail", ok)
       IN
       /\ objs' = IF Kube THEN Applied("miniIstio", RouteIds, bad) ELSE objs
       /\ h' = [Fault(h1, h, k) EXCEPT
                  !.objCreated = @ \cup NewObjects(RouteIds, bad),
                  !.applied = @ \o AppliedInOrder(RouteDocs, bad)]
       /\ pc' = SetE(ok, "m_nodeport")
       /\ exit' = ExitOf(ok)
  /\ UNCHANGED <<bin, istioDir, clusters, made, health, context, mesh, ns,
                 runs, script, pathIstio, prev, req, backend>>

m_nodeport ==
  /\ script = "miniIstio" /\ pc = "m_nodeport"
  /\ NodePort("m_ip", FALSE)
  /\ UNCHANGED <<envVars, runs, script, pathIstio, prev, req, backend>>

\* lines 241-247
m_ip ==
  /\ script = "miniIstio" /\ pc = "m_ip"
  /\ \E o \in IF MinikubeUp THEN {"ok", "fail"} ELSE {"ok"} :
       LET ok == MinikubeUp /\ o = "ok" IN
       /\ h' = [Cmd(h, "access", "minikube", o, ok) EXCEPT
                  !.report.ip = IF ok THEN "node-ip" ELSE @]
       /\ pc' = SetE(ok, "done")
       /\ exit' = IF ok THEN 0 ELSE 1
  /\ UNCHANGED <<envVars, runs, script, pathIstio, prev, req, backend>>

\* ------------------------------------------------------------ runs and host
FirstCommand(s) == IF s = "deployment" THEN "d_kubectl" ELSE "m_minikube"

FreshHost ==
  /\ \A t \in Tools : bin[t] = "absent"
  /\ clusters = {}
  /\ ~istioDir

\* The user starts a script; PATH and the working directory are those of the
\* shell.  Since the last run a cluster d may have stopped answering (its
\* control plane is degraded); d = "none" is a run that follows immediately.
Start(s, d, max) ==
  /\ pc \in {"idle", "done"}
  /\ runs < max
  /\ d = "none" \/ (d \in clusters /\ health[d] = "healthy")
  /\ health' = IF d = "none" THEN health ELSE [health EXCEPT ![d] = "degraded"]
  /\ runs' = runs + 1
  /\ script' = s
  /\ pc' = FirstCommand(s)
  /\ exit' = -1
  /\ pathIstio' = FALSE
  /\ h' = NewRun(FreshHost)
  /\ prev' = [script |-> script, ok |-> (pc = "done" /\ exit = 0),
              immediate |-> (d = "none"),
              installed |-> {t \in h.downloads : ToolWorks(t)},
              clusters |-> clusters, ns |-> ns, objs |-> objs]
  /\ UNCHANGED <<bin, istioDir, clusters, made, context, mesh, ns, objs, req, backend>>

StartRun(s, d) == Start(s, d, MaxRuns)

\* The run is killed between two commands; nothing is rolled back.
Abort ==
  /\ pc \notin {"idle", "done"}
  /\ pc' = "done"
  /\ exit' = 137
  /\ h' = [h EXCEPT !.aborted = TRUE]
  /\ UNCHANGED <<envVars, runs, script, pathIstio, prev, req, backend>>

Step ==
  \/ d_kubectl \/ d_probe \/ d_kind \/ d_create \/ d_ns \/ d_istioctl \/ d_mesh
  \/ d_patch \/ d_label \/ d_applyDb \/ d_applyApp \/ d_nodeip \/ d_nodeport
  \/ m_minikube \/ m_status \/ m_start \/ m_addon \/ m_waitIstiod \/ m_waitIngress
  \/ m_ns \/ m_label \/ m_applyDb \/ m_applyApp \/ m_applyRoute \/ m_nodeport \/ m_ip

Next ==
  \/ \E s \in Scripts, d \in AllClusters \cup {"none"} : StartRun(s, d)
  \/ Step
  \/ Abort

Spec == Init /\ [][Next]_vars

\* A started script keeps running until it ends.
FairSpec == Spec /\ WF_vars(Step)

\* A request with some path p enters through the ingress gateway of a cluster the
\* script has converged, and is resolved against the applied VirtualService.
\* Requests are resolved independently of each other: one is followed.
Request ==
  /\ pc = "done" /\ exit = 0
  /\ req = NoReq
  /\ ClusterUp
  /\ objs[context]["gateway"] # Absent
  /\ objs[context]["virtualservice"] # Absent
  /\ \E p \in Paths :
       LET dest == Resolve(objs[context]["virtualservice"].http, p) IN
       req' = [path |-> p, host |-> dest.host, port |-> dest.port]
  /\ UNCHANGED <<envVars, runVars, prev, backend>>

\* One run on a new host in which no external operation fails, then requests.
FirstRun == runs = 0 /\ \E s \in Scripts : StartRun(s, "none")

CleanStep == Step /\ ~h'.faulted

RouteNext ==
  \/ FirstRun
  \/ CleanStep
  \/ Request

RouteSpec == Init /\ [][RouteNext]_vars

\* --------------------------------------------------------------- backend/db.js
\* process.env[name]: <<>> is undefined, <<v>> the string v of the first binding.
ProcessEnv(env, name) ==
  LET found == {i \in DOMAIN env : env[i].name = name} IN
  IF found = {} THEN <<>>
  ELSE <<env[CHOOSE i \in found : \A j \in found : i <= j].value>>

\* `!x` taken as true for undefined only.
NotUndefinedOnly(x) == x = <<>>
\* line 4, `!mongoUri`: true for undefined and for the empty string.
Not(x) == x = <<>> \/ x[1] = ""

\* Environments db.js is started with outside a cluster.
LocalEnvs ==
  { <<>>,
    <<[name |-> "MONGO_URI", value |-> ""]>>,
    <<[name |-> "PORT", value |-> "5000"]>>,
    <<[name |-> "MONGO_URI", value |-> "mongodb://localhost:27017/ecommerceDB"]>> }

\* The container of Deployment ecommerce-backend starts (again, after an exit)
\* with the env of the applied document, or the process is started by hand.
db_start ==
  /\ backend.phase \in {"none", "exited"}
  /\ \/ /\ ClusterUp /\ objs[context]["dep_backend"] # Absent
        /\ backend' = [phase |-> "load", where |-> "pod",
                       env |-> objs[context]["dep_backend"].env,
                       attempts |-> 0, code |-> 0]
     \/ \E e \in LocalEnvs :
          backend' = [phase |-> "load", where |-> "local", env |-> e,
                      attempts |-> 0, code |-> 0]
  /\ UNCHANGED <<envVars, runVars, prev, req>>

\* lines 3-8: an uncaught throw at module load ends the process with code 1;
\* otherwise mongoose.connect is called.
db_require ==
  /\ backend.phase = "load"
  /\ LET mongoUri == ProcessEnv(backend.env, "MONGO_URI") IN
     backend' = IF Not(mongoUri)
                THEN [backend EXCEPT !.phase = "exited", !.code = 1]
                ELSE [backend EXCEPT !.phase = "connecting", !.attempts = @ + 1]
  /\ UNCHANGED <<envVars, runVars, prev, req>>

\* The datastore the connection string names can answer: in a pod, Service and
\* StatefulSet mongo of the cluster at that name; for a local process, whatever
\* listens at the address.
Reachable ==
  IF backend.where = "pod"
  THEN /\ ClusterUp
       /\ objs[context]["svc_mongo"] # Absent /\ objs[context]["sts_mongo"] # Absent
       /\ ProcessEnv(backend.env, "MONGO_URI") = <<MONGO_URI>>
  ELSE TRUE

\* lines 9-13: .then logs, .catch logs and calls process.exit(1)
db_settle ==
  /\ backend.phase = "connecting"
  /\ \E connected \in {TRUE, FALSE} :
       /\ connected => Reachable
       /\ backend' = IF connected THEN [backend EXCEPT !.phase = "connected"]
                     ELSE [backend EXCEPT !.phase = "exited", !.code = 1]
  /\ UNCHANGED <<envVars, runVars, prev, req>>

\* One run of a script in which no external operation fails, and backend
\* processes.
BackendNext ==
  \/ FirstRun
  \/ CleanStep
  \/ db_start
  \/ db_require
  \/ db_settle

BackendSpec == Init /\ [][BackendNext]_vars

\* Between two runs somebody creates, in the cluster the kubeconfig points to,
\* an object that no script declares.
Foreign ==
  /\ pc \in {"idle", "done"}
  /\ ClusterUp
  /\ \E o \in ForeignIds :
       /\ objs[context][o] = Absent
       /\ objs' = [objs EXCEPT ![context][o] = ForeignDoc]
  /\ UNCHANGED <<bin, istioDir, clusters, made, health, context, mesh, ns,
                 runVars, prev, req, backend>>

ForeignNext ==
  \/ Next
  \/ Foreign

ForeignSpec == Init /\ [][ForeignNext]_vars

\* Runs of either script, one after the other on the same host, in which no
\* external operation fails; a run may be killed.
CleanStart == \E s \in Scripts : Start(s, "none", MaxCleanRuns)

CleanNext ==
  \/ CleanStart
  \/ CleanStep
  \/ Abort

CleanSpec == Init /\ [][CleanNext]_vars

\* ------------------------------------------------------------------- claims
Done == pc = "done"

\* The run that just ended met no failing or misbehaving external operation
\* and was not killed.
CleanRun == Done /\ ~h.faulted /\ ~h.aborted

\* The run that just ended follows at once a successful run of the same script.
SecondRun == Done /\ runs >= 2 /\ prev.ok /\ prev.immediate /\ prev.script = script

\* Every desired object of script s is in cluster c as s declares it.
Converged(s, c) ==
  /\ c \in clusters
  /\ ns[c] # "absent"
  /\ \A o \in ObjIds : objs[c][o] = Manifest(s, o)

\* C1: a run that follows at once a successful run of the same script, with
\* every external operation succeeding again, exits 0, leaves the namespace and
\* every object exactly as the first run left them, and creates no cluster and
\* no object.
C1_Idempotent ==
  (SecondRun /\ CleanRun) =>
    /\ exit = 0
    /\ clusters = prev.clusters
    /\ ns = prev.ns
    /\ objs = prev.objs
    /\ h.created = {}
    /\ ~h.createTried
    /\ h.objCreated = {}
    /\ ~h.nsCreated

C1_Witness ==
  /\ SecondRun /\ CleanRun /\ exit = 0
  /\ Converged(script, context)

\* C2: once a command of a stage has failed, no later stage acts in that run
\* and the run ends with a non-zero exit code; a run exits 0 only if no command
\* of any stage failed.
C2_FailFast ==
  /\ h.failed # "none" => ~h.afterFail
  /\ (Done /\ h.failed # "none") => exit # 0
  /\ (Done /\ exit = 0) => h.failed = "none"

\* C3, for deployment.sh on a host where no broken binary is installed: after
\* a run that was killed or failed, a following run in which every external
\* operation succeeds exits 0 with every desired object present; and no cluster
\* name is ever created twice.
C3_ResumeConverges ==
  /\ (/\ Done /\ runs >= 2 /\ ~prev.ok /\ prev.immediate /\ CleanRun
      /\ script = "deployment"
      /\ \A t \in Tools : bin[t] # "broken") =>
       (exit = 0 /\ Converged(script, context))
  /\ \A c \in AllClusters : made[c] <= 1

\* C4: a run whose liveness probe found a reachable cluster neither creates a
\* cluster nor invokes cluster creation; and at any time at most one cluster
\* was created under each of the two fixed names, and no cluster has another
\* name.
C4_ClusterUnique ==
  /\ h.probeReach => (h.created = {} /\ ~h.createTried)
  /\ \A c \in AllClusters : made[c] <= 1
  /\ clusters \subseteq {KindClusterName, MinikubeProfile}
  /\ h.created \subseteq clusters

C4_Witness ==
  /\ Done /\ h.probeReach /\ runs >= 2
  /\ made[KindClusterName] = 1
  /\ exit = 0

\* C5: a run whose probe meets a cluster that exists but is degraded treats
\* it as reachable, does not invoke cluster creation, and if the run fails, it
\* fails in a later stage than the cluster stage.
C5_DegradedIsReachable ==
  h.degradedAtProbe =>
    /\ h.probeReach
    /\ ~h.createTried
    /\ h.failed # "cluster"

C7_NoDanglingRoute ==
  \A c \in clusters :
    (objs[c]["gateway"] # Absent \/ objs[c]["virtualservice"] # Absent) =>
      (objs[c]["svc_backend"] # Absent /\ objs[c]["svc_frontend"] # Absent)

\* The request path begins with /api.
BeginsWithApi(path) == Len(path) >= 4 /\ SubSeq(path, 1, 4) = <<"/", "a", "p", "i">>

CatchAlls(http) == {i \in DOMAIN http : ~http[i].match}

\* C8: the applied routing table has exactly one rule without a predicate and
\* it is the last; a request whose path begins with /api goes to the backend
\* Service on port 80, every other request to the frontend Service on port 80.
C8_RoutingResolution ==
  /\ \A c \in clusters :
       objs[c]["virtualservice"] # Absent =>
         LET http == objs[c]["virtualservice"].http IN
         CatchAlls(http) = {Len(http)}
  /\ req # NoReq =>
       /\ req.port = 80
       /\ req.host = IF BeginsWithApi(req.path)
                     THEN "ecommerce-backend.helix.svc.cluster.local"
                     ELSE "ecommerce-frontend.helix.svc.cluster.local"

C8_Witness ==
  /\ req.path = <<"/", "a", "p", "i", "/", "x">>
  /\ req.host = "ecommerce-backend.helix.svc.cluster.local"

\* A run of deployment.sh has started on a host with no tool and no cluster.
HappyStart == pc = "d_kubectl" /\ h.fresh

HappyResult ==
  /\ exit = 0
  /\ bin["kubectl"] = "ok" /\ bin["kind"] = "ok" /\ ToolWorks("istioctl")
  /\ h.downloads = {"kubectl", "kind", "istioctl"}
  /\ clusters = {KindClusterName} /\ h.created = {KindClusterName}
  /\ made[KindClusterName] = 1
  /\ context = KindClusterName /\ health[KindClusterName] = "healthy"
  /\ mesh[KindClusterName].profile = "demo"
  /\ mesh[KindClusterName].istiod = "ready"
  /\ mesh[KindClusterName].ingress = "ready"
  /\ ns[KindClusterName] = "enabled"
  /\ Converged("deployment", KindClusterName)
  /\ h.report = [ip |-> "node-ip", port |-> "node-port"]

HappyEnd ==
  /\ Done /\ script = "deployment" /\ h.fresh
  /\ (~h.faulted /\ ~h.aborted) => HappyResult

\* C9: a run of deployment.sh started on a host with no tool and no cluster
\* ends, and if no external operation failed and it was not killed, it has
\* exited 0 with the tools installed, one cluster ecommerce-cluster created,
\* the mesh installed with profile demo, namespace helix labelled for
\* injection, every document applied and both endpoints printed.
C9_HappyPath == HappyStart ~> HappyEnd

C9_Witness ==
  /\ Done /\ script = "deployment" /\ h.fresh /\ CleanRun
  /\ HappyResult

\* C10: a download that fails or returns something that is not the tool ends
\* the run at that command with a non-zero exit code, and no broken binary is
\* ever installed.
C10_InstallFailureAborts ==
  /\ \A t \in Tools : bin[t] # "broken"
  /\ h.garbage # {} => (Done /\ exit # 0)
  /\ h.brokenUse \cap h.garbage = {}

\* The commands of the namespace stage of either script.
NamespaceStage == d_ns \/ m_ns \/ d_label \/ m_label

\* C11: a label command of miniIstio.sh (injection disabled) that succeeds
\* leaves the namespace not enabled, whatever its label was, and one of
\* deployment.sh (injection enabled) leaves it enabled; a command of the
\* namespace stage creates the namespace only when it is absent, removes no
\* namespace, and leaves every object of every cluster unchanged.
C11_NamespaceToggle ==
  [][NamespaceStage =>
       /\ objs' = objs /\ clusters' = clusters /\ mesh' = mesh
       /\ \A c \in AllClusters :
            /\ ns[c] # "absent" => ns'[c] # "absent"
            /\ ns'[c] # ns[c] => c = context
       /\ (h'.nsCreated /\ ~h.nsCreated) => ns[context] = "absent"
       /\ (pc = "m_label" /\ h'.nsLabelled) => ns'[context] = "plain"
       /\ (pc = "d_label" /\ h'.nsLabelled) => ns'[context] = "enabled"]_vars

\* miniIstio.sh has removed the label deployment.sh had set, on a namespace
\* that holds every object.
C11_Witness ==
  /\ script = "miniIstio" /\ h.nsLabelled /\ h.nsBefore = "enabled"
  /\ ~h.nsCreated
  /\ ns[context] = "plain"
  /\ \A o \in ObjIds : objs[context][o] # Absent

\* C12: a run that was not killed and whose only fault is a transient failure
\* of one apply has repeated the apply: it exits 0 with every desired object
\* present.
C12_TransientRetried ==
  (Done /\ h.transient /\ ~h.aborted) =>
    (exit = 0 /\ Converged(script, context))

\* The run reached its last lines and printed the access URLs.
Reported == Done /\ exit = 0

\* C13: when a lookup finds no address or no port of the mesh ingress the
\* endpoint is unresolved: the URLs a run prints as the way to reach the
\* application never have an empty host or an empty port.
C13_UnresolvedNotReported ==
  Reported => (h.report.ip # "" /\ h.report.port # "")

\* The connection string protocol://service-dns-name:port/database-name of
\* Service svc.
ConnectionString(protocol, svc, database) ==
  protocol \o "://" \o svc.name \o "." \o svc.namespace \o ".svc.cluster.local"
    \o ":" \o ToString(svc.port) \o "/" \o database

\* C14: every applied backend Deployment has exactly one env binding,
\* MONGO_URI, the connection string of Service mongo; a backend process whose
\* MONGO_URI is undefined or empty ends with a non-zero code without a
\* connection attempt; a process whose connection attempt failed has ended
\* with a non-zero code; so a process that is connecting or connected has a
\* non-empty MONGO_URI and one connection attempt.
C14_BackendFailFast ==
  /\ \A c \in clusters :
       objs[c]["dep_backend"] # Absent =>
         /\ Len(objs[c]["dep_backend"].env) = 1
         /\ objs[c]["dep_backend"].env[1].name = "MONGO_URI"
         /\ \A s \in Scripts :
              objs[c]["dep_backend"].env[1].value =
                ConnectionString("mongodb", Manifest(s, "svc_mongo"), "ecommerceDB")
  /\ LET uri == ProcessEnv(backend.env, "MONGO_URI")
         missing == uri = <<>> \/ uri = <<"">>
     IN
     /\ (backend.phase \notin {"none", "load"} /\ missing) =>
          (backend.phase = "exited" /\ backend.code # 0 /\ backend.attempts = 0)
     /\ backend.phase = "exited" => backend.code # 0
     /\ backend.phase \in {"connecting", "connected"} =>
          (~missing /\ backend.attempts = 1)
     /\ backend.phase = "connected" => Reachable

\* A backend process started with an empty MONGO_URI has ended, and the
\* cluster holds the backend Deployment.
C14_Witness ==
  /\ backend.phase = "exited" /\ backend.attempts = 0
  /\ ProcessEnv(backend.env, "MONGO_URI") = <<"">>
  /\ ClusterUp /\ objs[context]["dep_backend"] # Absent

\* C15: a run that follows a successful run on the same host, and in which no
\* external operation fails, downloads no tool that the run before it
\* downloaded and installed successfully.
C15_InstallNoOp ==
  (prev.ok /\ ~h.faulted) => h.downloads \cap prev.installed = {}

\* C16: no run invokes a tool that is missing from the host: every tool a run
\* invokes was present or was installed earlier in that run.
C16_ProbedBeforeUse == \A t \in h.brokenUse : bin[t] # "absent"

MeshReady(c) == mesh[c].istiod = "ready" /\ mesh[c].ingress = "ready"

MeshStage == pc \in {"d_mesh", "m_addon", "m_waitIstiod", "m_waitIngress"}

\* The run is at a command that follows the mesh stage.
PastMesh ==
  pc \in {"d_patch", "d_label", "d_applyDb", "d_applyApp", "d_nodeip", "d_nodeport",
          "m_ns", "m_label", "m_applyDb", "m_applyApp", "m_applyRoute",
          "m_nodeport", "m_ip"}

\* C17: a run is past the mesh stage, or has acted in a later stage, or has
\* exited 0, only with istiod and the ingress gateway of its cluster ready;
\* a run in which one of them was not ready in time has ended there with a
\* non-zero exit code; and a run that is in the mesh stage leaves it.
C17_MeshGate ==
  /\ [](PastMesh => (ClusterUp /\ MeshReady(context)))
  /\ []((pc # "idle" /\ (h.acts \cap {"workload", "route", "access"} # {} \/ h.nsLabelled))
          => MeshReady(context))
  /\ []((Done /\ exit = 0) => MeshReady(context))
  /\ [](h.meshTimeout => (Done /\ exit # 0 /\ h.failed # "none" /\ ~MeshReady(context)))
  /\ (MeshStage ~> ~MeshStage)

\* A run of miniIstio.sh has passed both waits.
C17_Witness ==
  /\ pc = "m_ns" /\ mesh[context].profile = "addon" /\ MeshReady(context)
  /\ ~h.meshTimeout

\* C18: in every run, wherever the backend Deployment is in the order of the
\* applied documents, Service mongo is before it; so a run in which the apply
\* of Service mongo has not succeeded has not applied the backend Deployment.
C18_DatastoreFirst ==
  \A i \in DOMAIN h.applied :
    h.applied[i] = "dep_backend" =>
      \E j \in 1..(i - 1) : h.applied[j] = "svc_mongo"

\* A run has applied both, and the backend refers to Service mongo by name.
C18_Witness ==
  /\ \E i, j \in DOMAIN h.applied :
       j < i /\ h.applied[j] = "svc_mongo" /\ h.applied[i] = "dep_backend"
  /\ objs[context]["dep_backend"].env[1].value =
       ConnectionString("mongodb", objs[context]["svc_mongo"], "ecommerceDB")

\* C19: no step removes a cluster, the namespace or an object, and no step
\* changes an object that no script declares once it exists.
C19_NoPruning ==
  [][/\ clusters \subseteq clusters'
     /\ \A c \in AllClusters :
          /\ ns[c] # "absent" => ns'[c] # "absent"
          /\ mesh[c].profile # "none" => mesh'[c].profile # "none"
          /\ \A o \in ClusterObjIds : objs[c][o] # Absent => objs'[c][o] # Absent
          /\ \A o \in ForeignIds : objs[c][o] # Absent => objs'[c][o] = objs[c][o]]_vars

\* A run has applied every document to a cluster that held a foreign object
\* before the run, and the object is there.
C19_Witness ==
  /\ Done /\ exit = 0 /\ Len(h.applied) = Cardinality(ObjIds)
  /\ prev.objs[context]["other"] = ForeignDoc
  /\ objs[context]["other"] = ForeignDoc

\* A document without its container resources.
Topology(doc) == [f \in DOMAIN doc \ {"resources"} |-> doc[f]]

\* C20: when a successful run of one script is followed by a successful run
\* of the other, the cluster the first left and the cluster the second left
\* hold the same objects (kind and name), and every object is the same
\* document in both except for its container resources: the same Service
\* ports and selectors, the same MONGO_URI binding, the same Gateway and the
\* same routing rules.
C20_SameTopology ==
  (Done /\ exit = 0 /\ runs >= 2 /\ prev.ok /\ prev.script # script) =>
    /\ \E c \in prev.clusters : \A o \in ObjIds : prev.objs[c][o] # Absent
    /\ \A c \in prev.clusters :
         (\A o \in ObjIds : prev.objs[c][o] # Absent) =>
           \A o \in ObjIds :
             /\ objs[context][o] # Absent
             /\ Topology(prev.objs[c][o]) = Topology(objs[context][o])

\* deployment.sh has converged the kind cluster and then miniIstio.sh the
\* minikube cluster: the documents differ in their resources and the
\* namespaces in the injection label.
C20_Witness ==
  /\ Done /\ exit = 0 /\ runs >= 2 /\ prev.ok
  /\ prev.script = "deployment" /\ script = "miniIstio"
  /\ context = MinikubeProfile
  /\ Converged("deployment", KindClusterName)
  /\ Converged("miniIstio", MinikubeProfile)
  /\ objs[KindClusterName]["dep_backend"] # objs[MinikubeProfile]["dep_backend"]
  /\ ns[KindClusterName] = "enabled" /\ ns[MinikubeProfile] = "plain"

====
